---- MODULE Spec2Model ----
(***************************************************************************)
(* Model of check-published-fixes.js: the start-up credential checks, the  *)
(* three remote clients, the date comparator and the orchestrator          *)
(* checkPublishedFixes.  The asynchronous function is cut at its awaits:   *)
(* every action is the synchronous code that runs between two awaits.      *)
(***************************************************************************)
EXTENDS Integers, Sequences, FiniteSets, TLC

VARIABLES
    pc,                     \* where the script is suspended
    env,                    \* process.env: the two credentials
    rso,                    \* siteDetails.hlxConfig?.rso
    fixes,                  \* the array returned by getFixedPages
    deployedFixes,          \* the filtered and mapped array
    idx,                    \* position of the for..of loop in deployedFixes
    status,                 \* result of the last getHelixStatus
    livePublishedPages,     \* evidence accumulator (live)
    previewPublishedPages,  \* evidence accumulator (preview)
    results,                \* what checkPublishedFixes resolved to
    exitCode,               \* the process exit code, once pc = "exited"
    trace,                  \* log of remote calls, their completions and pauses
    cmpA, cmpB, cmpOut      \* arguments and result of an isDateAfter call

vars == <<pc, env, rso, fixes, deployedFixes, idx, status, livePublishedPages,
          previewPublishedPages, results, exitCode, trace, cmpA, cmpB, cmpOut>>

runVars == <<pc, env, rso, fixes, deployedFixes, idx, status, livePublishedPages,
             previewPublishedPages, results, exitCode, trace>>

-----------------------------------------------------------------------------
(* Bounds *)

MaxFixes == 2       \* longest fix list the tracking service returns
MaxHour == 3        \* hours 0..MaxHour appear in the compared timestamps

-----------------------------------------------------------------------------
(* JavaScript values *)

Undefined == "<undefined>"

\* !x for a string-or-undefined value
Truthy(s) == s # Undefined /\ s # ""

\* A value handed to new Date(): an ISO-8601 string of 2025-07-11 with hour,
\* minute and zone offset (minutes east of UTC), some other text, the empty
\* string, or undefined.
Iso(h, m, o) == [kind |-> "iso", hour |-> h, minute |-> m, offset |-> o]
NoDate(k) == [kind |-> k, hour |-> 0, minute |-> 0, offset |-> 0]
UndefinedDate == NoDate("undefined")
EmptyDate == NoDate("empty")
GarbageDate == NoDate("garbage")

DateTruthy(d) == d.kind \in {"iso", "garbage"}

NaN == [nan |-> TRUE, t |-> 0]
TimeValue(n) == [nan |-> FALSE, t |-> n]

parseDateLexical(dateString) ==
    IF dateString.kind = "iso" /\ dateString.minute <= 59
    THEN TimeValue(dateString.hour * 60 + dateString.minute)
    ELSE NaN

\* new Date(dateString): the time value, counted in minutes from
\* 2025-07-11T00:00Z, or NaN for an Invalid Date
parseDate(dateString) ==
    IF dateString.kind = "iso" /\ dateString.minute <= 59
    THEN TimeValue(dateString.hour * 60 + dateString.minute - dateString.offset)
    ELSE NaN

\* date1 > date2 on two Date objects: both are converted to their time value
DateGreater(date1, date2) == ~date1.nan /\ ~date2.nan /\ date1.t > date2.t

isDateAfterOrEqual(dateString1, dateString2) ==
    LET date1 == parseDate(dateString1)
        date2 == parseDate(dateString2)
    IN ~date1.nan /\ ~date2.nan /\ date1.t >= date2.t

isDateAfter(dateString1, dateString2) ==
    LET date1 == parseDate(dateString1)
        date2 == parseDate(dateString2)
    IN DateGreater(date1, date2)

-----------------------------------------------------------------------------
(* What the remote services can answer *)

Credentials == {Undefined, "", "key"}

FixStatuses == {"DEPLOYED", "PENDING"}
DocumentPaths == {Undefined, "", "/a", "b"}
ExecutedAts == {Iso(15, 30, 0), GarbageDate}

FixBodies == [status : FixStatuses, executedAt : ExecutedAts,
              documentPath : DocumentPaths]

FixLists ==
    UNION {{[i \in 1..n |-> [id |-> i, status |-> f[i].status,
                             executedAt |-> f[i].executedAt,
                             documentPath |-> f[i].documentPath]]
              : f \in [1..n -> FixBodies]} : n \in 0..MaxFixes}

\* lastModified of a branch: earlier than, the same instant as (written in
\* another zone), or later than 15:30Z; unparseable; missing
LastModifieds == {Iso(10, 0, 0), Iso(17, 30, 120), Iso(16, 30, 0),
                  GarbageDate, UndefinedDate}

NoBranch == [present |-> FALSE, lastModified |-> UndefinedDate, url |-> Undefined]
Branch(lm, u) == [present |-> TRUE, lastModified |-> lm, url |-> u]

LiveBranches == {NoBranch} \cup {Branch(lm, "live-url") : lm \in LastModifieds}
PreviewBranches == {NoBranch} \cup {Branch(lm, "preview-url") : lm \in LastModifieds}

Null == [isNull |-> TRUE, live |-> NoBranch, preview |-> NoBranch]
StatusBody(l, p) == [isNull |-> FALSE, live |-> l, preview |-> p]
StatusBodies == {StatusBody(l, p) : l \in LiveBranches, p \in PreviewBranches}

\* how a fetch followed by response.json() can end
FetchOutcomes == {"ok", "non2xx", "network", "malformed"}

\* the parsed body of an answer: there is one only when the fetch went well
BodiesOf(outcome, bodies, none) == IF outcome = "ok" THEN bodies ELSE {none}

NoRso == [present |-> FALSE, owner |-> Undefined, site |-> Undefined, ref |-> Undefined]
SomeRso == [present |-> TRUE, owner |-> "owner", site |-> "site", ref |-> "main"]

\* bodies of the site-detail answer: without hlxConfig, with an hlxConfig that
\* has no rso, with an rso
SiteBodies == {[hlxConfig |-> FALSE, rso |-> NoRso],
               [hlxConfig |-> TRUE, rso |-> NoRso],
               [hlxConfig |-> TRUE, rso |-> SomeRso]}
EmptySiteBody == [hlxConfig |-> FALSE, rso |-> NoRso]

-----------------------------------------------------------------------------
(* The three clients: what the awaited call gives back to the orchestrator *)

Returned(v) == [threw |-> FALSE, value |-> v]
Threw(v) == [threw |-> TRUE, value |-> v]

getSiteDetails(outcome, body) ==
    IF outcome = "ok" THEN Returned(body) ELSE Threw(EmptySiteBody)

getFixedPagesSwallow(outcome, body) ==
    IF outcome = "ok" THEN Returned(body) ELSE Returned(<<>>)

getFixedPages(outcome, body) ==
    IF outcome = "ok" THEN Returned(body) ELSE Threw(<<>>)

getHelixStatusRethrow(outcome, body) ==
    IF outcome = "ok" THEN Returned(body) ELSE Threw(Null)

getHelixStatus(outcome, body) ==
    IF outcome = "ok" THEN Returned(body) ELSE Returned(Null)

-----------------------------------------------------------------------------
(* Start-up *)

CredentialsPresentFirstOnly(e) == Truthy(e.SPACECAT_API_KEY)

CredentialsPresent(e) ==
    Truthy(e.SPACECAT_API_KEY) /\ Truthy(e.HELIX_ADMIN_TOKEN)

Event(e, a, i, o) == [ev |-> e, api |-> a, id |-> i, ok |-> o]

NoResults == [kind |-> "pending", livePublishedPages |-> <<>>,
              previewPublishedPages |-> <<>>,
              details |-> [live |-> <<>>, preview |-> <<>>]]
UndefinedResults == [NoResults EXCEPT !.kind = "undefined"]

RunInit ==
    /\ pc = "startup"
    /\ env \in [SPACECAT_API_KEY : Credentials, HELIX_ADMIN_TOKEN : Credentials]
    /\ rso = NoRso
    /\ fixes = <<>>
    /\ deployedFixes = <<>>
    /\ idx = 0
    /\ status = Null
    /\ livePublishedPages = <<>>
    /\ previewPublishedPages = <<>>
    /\ results = NoResults
    /\ exitCode = 0
    /\ trace = <<>>

NoCompare == [called |-> FALSE, ab |-> FALSE, ba |-> FALSE, aa |-> FALSE]

Init ==
    /\ RunInit
    /\ cmpA = UndefinedDate
    /\ cmpB = UndefinedDate
    /\ cmpOut = NoCompare

\* process.exit(1)
Exit1 ==
    /\ pc' = "exited"
    /\ exitCode' = 1

\* the module's top-level code up to the first await of checkPublishedFixes
Startup ==
    /\ pc = "startup"
    /\ IF ~CredentialsPresent(env)
       THEN /\ Exit1
            /\ UNCHANGED trace
       ELSE /\ pc' = "awaitSiteDetails"
            /\ trace' = Append(trace, Event("call", "site", 0, TRUE))
            /\ UNCHANGED exitCode
    /\ UNCHANGED <<env, rso, fixes, deployedFixes, idx, status, livePublishedPages,
                   previewPublishedPages, results, cmpA, cmpB, cmpOut>>


-----------------------------------------------------------------------------
(* checkPublishedFixes *)

RsoMissingNever(r) == FALSE

\* !rso
RsoMissing(r) == ~r.present

SiteDetailsResponse ==
    /\ pc = "awaitSiteDetails"
    /\ \E outcome \in FetchOutcomes :
       \E body \in BodiesOf(outcome, SiteBodies, EmptySiteBody) :
         LET r == getSiteDetails(outcome, body)
             newRso == IF r.value.hlxConfig THEN r.value.rso ELSE NoRso
             tr == Append(trace, Event("return", "site", 0, outcome = "ok"))
         IN IF r.threw
            THEN /\ Exit1
                 /\ trace' = tr
                 /\ UNCHANGED rso
            ELSE /\ rso' = newRso
                 /\ IF RsoMissing(newRso)
                    THEN /\ Exit1
                         /\ trace' = tr
                    ELSE /\ pc' = "awaitFixedPages"
                         /\ trace' = Append(tr, Event("call", "fixes", 0, TRUE))
                         /\ UNCHANGED exitCode
    /\ UNCHANGED <<env, fixes, deployedFixes, idx, status, livePublishedPages,
                   previewPublishedPages, results, cmpA, cmpB, cmpOut>>

MapFix(fix) == [id |-> fix.id, executedAt |-> fix.executedAt,
                documentPath |-> fix.documentPath]

MapFixes(fs) == [i \in 1..Len(fs) |-> MapFix(fs[i])]

IsDeployed(fix) == fix.status = "DEPLOYED"
HasDocumentPath(fix) == Truthy(fix.documentPath)

DeployedFilterPathOnly(fs) == SelectSeq(MapFixes(fs), HasDocumentPath)

\* fixes.filter(status === 'DEPLOYED').map(...).filter(documentPath)
DeployedFilter(fs) ==
    SelectSeq(MapFixes(SelectSeq(fs, IsDeployed)), HasDocumentPath)

DocumentPathsOf(pages) == [i \in 1..Len(pages) |-> pages[i].documentPath]

ResultsObject(live, preview) ==
    [kind |-> "object",
     livePublishedPages |-> DocumentPathsOf(live),
     previewPublishedPages |-> DocumentPathsOf(preview),
     details |-> [live |-> live, preview |-> preview]]

\* The for..of loop arrives at element i with the accumulators live and
\* preview: either the next getHelixStatus call is issued, or the loop is over,
\* the results are reported and returned and the process ends with code 0.
Iterate(i, dep, live, preview, tr) ==
    /\ idx' = i
    /\ IF i <= Len(dep)
       THEN /\ pc' = "awaitHelixStatus"
            /\ trace' = Append(tr, Event("call", "status", dep[i].id, TRUE))
            /\ UNCHANGED <<results, exitCode>>
       ELSE /\ pc' = "exited"
            /\ exitCode' = 0
            /\ trace' = tr
            /\ results' = ResultsObject(live, preview)

FixedPagesResponse ==
    /\ pc = "awaitFixedPages"
    /\ \E outcome \in FetchOutcomes :
       \E body \in BodiesOf(outcome, FixLists, <<>>) :
         LET r == getFixedPages(outcome, body)
             dep == DeployedFilter(r.value)
             tr == Append(trace, Event("return", "fixes", 0, outcome = "ok"))
         IN IF r.threw
            THEN /\ Exit1
                 /\ trace' = tr
                 /\ UNCHANGED <<fixes, deployedFixes, idx, results>>
            ELSE /\ fixes' = r.value
                 /\ deployedFixes' = dep
                 /\ IF Len(dep) = 0
                    THEN /\ pc' = "exited"
                         /\ exitCode' = 0
                         /\ results' = UndefinedResults
                         /\ trace' = tr
                         /\ UNCHANGED idx
                    ELSE Iterate(1, dep, <<>>, <<>>, tr)
    /\ UNCHANGED <<env, rso, status, livePublishedPages, previewPublishedPages,
                   cmpA, cmpB, cmpOut>>

Unshift(arr, x) == <<x>> \o arr

\* arr.push(x)
Push(arr, x) == Append(arr, x)

\* status.live?.lastModified
HasLastModified(branch) == branch.present /\ DateTruthy(branch.lastModified)

LiveEvidence(fix, st) ==
    [documentPath |-> fix.documentPath, executedAt |-> fix.executedAt,
     liveLastModified |-> st.live.lastModified, liveUrl |-> st.live.url]

PreviewEvidence(fix, st) ==
    [documentPath |-> fix.documentPath, executedAt |-> fix.executedAt,
     previewLastModified |-> st.preview.lastModified, previewUrl |-> st.preview.url]

CheckLive(live, fix, st) ==
    IF HasLastModified(st.live) /\ isDateAfter(st.live.lastModified, fix.executedAt)
    THEN Push(live, LiveEvidence(fix, st))
    ELSE live

CheckPreview(preview, fix, st) ==
    IF HasLastModified(st.preview)
       /\ isDateAfter(st.preview.lastModified, fix.executedAt)
    THEN Push(preview, PreviewEvidence(fix, st))
    ELSE preview

RetryIndex(i) == i

\* continue: the loop moves to the next element
ContinueIndex(i) == i + 1

HelixStatusResponse ==
    /\ pc = "awaitHelixStatus"
    /\ \E outcome \in FetchOutcomes :
       \E body \in BodiesOf(outcome, StatusBodies, Null) :
         LET fix == deployedFixes[idx]
             r == getHelixStatus(outcome, body)
             tr == Append(trace, Event("return", "status", fix.id, outcome = "ok"))
         IN IF r.threw
            THEN /\ Exit1
                 /\ trace' = tr
                 /\ UNCHANGED <<idx, status, livePublishedPages,
                                previewPublishedPages, results>>
            ELSE /\ status' = r.value
                 /\ IF r.value.isNull
                    THEN /\ Iterate(ContinueIndex(idx), deployedFixes,
                                    livePublishedPages, previewPublishedPages, tr)
                         /\ UNCHANGED <<livePublishedPages, previewPublishedPages>>
                    ELSE /\ livePublishedPages' =
                              CheckLive(livePublishedPages, fix, r.value)
                         /\ previewPublishedPages' =
                              CheckPreview(previewPublishedPages, fix, r.value)
                         /\ pc' = "awaitDelay"
                         /\ trace' = tr
                         /\ UNCHANGED <<idx, results, exitCode>>
    /\ UNCHANGED <<env, rso, fixes, deployedFixes, cmpA, cmpB, cmpOut>>

\* the 100 ms timer fires and the loop goes on
DelayElapsed ==
    /\ pc = "awaitDelay"
    /\ Iterate(idx + 1, deployedFixes, livePublishedPages, previewPublishedPages,
               Append(trace, Event("pause", "delay", deployedFixes[idx].id, TRUE)))
    /\ UNCHANGED <<env, rso, fixes, deployedFixes, status, livePublishedPages,
                   previewPublishedPages, cmpA, cmpB, cmpOut>>

Next ==
    \/ Startup
    \/ SiteDetailsResponse
    \/ FixedPagesResponse
    \/ HelixStatusResponse
    \/ DelayElapsed

Spec == Init /\ [][Next]_vars

-----------------------------------------------------------------------------
(* The date comparator on its own *)

DateInputs ==
    {UndefinedDate, EmptyDate, GarbageDate}
        \cup {Iso(h, m, o) : h \in 0..MaxHour, m \in {0, 30, 61}, o \in {0, 120}}

InitDate ==
    /\ RunInit
    /\ env = [SPACECAT_API_KEY |-> "key", HELIX_ADMIN_TOKEN |-> "key"]
    /\ cmpA \in DateInputs
    /\ cmpB \in DateInputs
    /\ cmpOut = NoCompare

Compare ==
    /\ ~cmpOut.called
    /\ cmpOut' = [called |-> TRUE,
                  ab |-> isDateAfter(cmpA, cmpB),
                  ba |-> isDateAfter(cmpB, cmpA),
                  aa |-> isDateAfter(cmpA, cmpA)]
    /\ UNCHANGED <<cmpA, cmpB>>
    /\ UNCHANGED runVars

NextDate == Compare

SpecDate == InitDate /\ [][NextDate]_vars


-----------------------------------------------------------------------------
(* Vocabulary of the properties, stated on the inputs and on the trace *)

\* a credential that is unset or empty
CredentialMissing(v) == v = Undefined \/ v = ""

SomeCredentialMissing ==
    CredentialMissing(env.SPACECAT_API_KEY) \/ CredentialMissing(env.HELIX_ADMIN_TOKEN)

\* a fix record that is relevant downstream
Qualifies(fix) ==
    fix.status = "DEPLOYED" /\ fix.documentPath # Undefined /\ fix.documentPath # ""

QualifyingFixes == SelectSeq(fixes, Qualifies)
QualifyingIds == [i \in 1..Len(QualifyingFixes) |-> QualifyingFixes[i].id]

IsCall(e) == e.ev = "call"
IsRemote(e) == e.ev # "pause"
IsStatusCall(e) == e.ev = "call" /\ e.api = "status"
IsStatusReturn(e) == e.ev = "return" /\ e.api = "status"

Calls == SelectSeq(trace, IsCall)
RemoteEvents == SelectSeq(trace, IsRemote)
StatusCalls == SelectSeq(trace, IsStatusCall)
StatusCallIds == [i \in 1..Len(StatusCalls) |-> StatusCalls[i].id]
StatusReturns == SelectSeq(trace, IsStatusReturn)

IsPrefix(s, t) == Len(s) <= Len(t) /\ \A i \in 1..Len(s) : s[i] = t[i]

SiteReturned == \E i \in 1..Len(trace) : trace[i].ev = "return" /\ trace[i].api = "site"
SiteFetchFailed ==
    \E i \in 1..Len(trace) :
        trace[i].ev = "return" /\ trace[i].api = "site" /\ ~trace[i].ok
RoutingFailed == SiteReturned /\ ~rso.present
FixListFailed ==
    \E i \in 1..Len(trace) :
        trace[i].ev = "return" /\ trace[i].api = "fixes" /\ ~trace[i].ok
FixListCalled ==
    \E i \in 1..Len(trace) : trace[i].ev = "call" /\ trace[i].api = "fixes"

\* instants, independently of the comparator
ValidTimestamp(d) == d.kind = "iso" /\ d.minute \in 0..59
UtcMinutes(d) == 60 * d.hour + d.minute - d.offset
StrictlyLater(a, b) ==
    ValidTimestamp(a) /\ ValidTimestamp(b) /\ UtcMinutes(a) > UtcMinutes(b)

LastModifiedPresent(branch) ==
    branch.present /\ branch.lastModified.kind \notin {"undefined", "empty"}

\* the step in which a status call completes, and the event logged for it
StatusCompletes == pc = "awaitHelixStatus" /\ Len(trace') > Len(trace)
Completion == trace'[Len(trace) + 1]

\* evidence entry e is about fix record f
About(e, f) == e.documentPath = f.documentPath /\ e.executedAt = f.executedAt

RECURSIVE Embeds(_, _)
\* ev embeds, in order and one entry per record at most, into recs
Embeds(ev, recs) ==
    IF ev = <<>> THEN TRUE
    ELSE IF recs = <<>> THEN FALSE
    ELSE IF About(Head(ev), Head(recs)) THEN Embeds(Tail(ev), Tail(recs))
    ELSE Embeds(ev, Tail(recs))

-----------------------------------------------------------------------------
(* Properties *)

C1_Step ==
    (StatusCompletes /\ ~Completion.ok) =>
        LET k == Len(StatusCalls)
        IN /\ status'.isNull
           /\ livePublishedPages' = livePublishedPages
           /\ previewPublishedPages' = previewPublishedPages
           /\ ~(pc' = "exited" /\ exitCode' = 1)
           /\ IF k < Len(QualifyingIds)
              THEN /\ pc' = "awaitHelixStatus"
                   /\ trace'[Len(trace')] =
                        Event("call", "status", QualifyingIds[k + 1], TRUE)
              ELSE pc' = "exited" /\ exitCode' = 0 /\ results'.kind = "object"

\* C1: when the status call of a qualifying record fails, getHelixStatus gives
\* an absent result, neither evidence list changes, the run does not abort, and
\* the next qualifying record (if any) gets its status call.
C1_FailedStatusIsSkipped == [][C1_Step]_vars

C1_Witness ==
    /\ pc = "exited" /\ exitCode = 0
    /\ Len(StatusReturns) = 2
    /\ ~StatusReturns[1].ok /\ StatusReturns[2].ok
    /\ Len(livePublishedPages) = 1

C2_Step ==
    (StatusCompletes /\ Completion.ok) =>
        LET fix == QualifyingFixes[Len(StatusCalls)]
            st == status'
            liveHolds == LastModifiedPresent(st.live)
                           /\ StrictlyLater(st.live.lastModified, fix.executedAt)
            previewHolds == LastModifiedPresent(st.preview)
                           /\ StrictlyLater(st.preview.lastModified, fix.executedAt)
        IN /\ ~st.isNull
           /\ IF liveHolds
              THEN /\ Len(livePublishedPages') = Len(livePublishedPages) + 1
                   /\ IsPrefix(livePublishedPages, livePublishedPages')
                   /\ LET e == livePublishedPages'[Len(livePublishedPages')]
                      IN About(e, fix) /\ e.liveLastModified = st.live.lastModified
              ELSE livePublishedPages' = livePublishedPages
           /\ IF previewHolds
              THEN /\ Len(previewPublishedPages') = Len(previewPublishedPages) + 1
                   /\ IsPrefix(previewPublishedPages, previewPublishedPages')
                   /\ LET e == previewPublishedPages'[Len(previewPublishedPages')]
                      IN About(e, fix)
                           /\ e.previewLastModified = st.preview.lastModified
              ELSE previewPublishedPages' = previewPublishedPages

\* C2: when the status of a qualifying record is available, a live entry is
\* appended iff live.lastModified is present and strictly later than executedAt,
\* and a preview entry iff preview.lastModified is present and strictly later;
\* each decision is taken on its own branch.
C2_EvidenceIffStrictlyLater == [][C2_Step]_vars

C2_Witness ==
    /\ pc = "awaitDelay"
    /\ status.live.lastModified = Iso(17, 30, 120)
    /\ status.preview.lastModified = Iso(16, 30, 0)
    /\ deployedFixes[idx].executedAt = Iso(15, 30, 0)
    /\ livePublishedPages = <<>>
    /\ Len(previewPublishedPages) = 1

\* C3: every status call is for a record with status DEPLOYED and a
\* documentPath, and every evidence entry is about such a record.
C3_OnlyQualifyingReachStatus ==
    /\ \A i \in 1..Len(StatusCalls) :
         \E j \in 1..Len(fixes) :
             fixes[j].id = StatusCalls[i].id /\ Qualifies(fixes[j])
    /\ \A i \in 1..Len(livePublishedPages) :
         \E j \in 1..Len(fixes) :
             Qualifies(fixes[j]) /\ About(livePublishedPages[i], fixes[j])
    /\ \A i \in 1..Len(previewPublishedPages) :
         \E j \in 1..Len(fixes) :
             Qualifies(fixes[j]) /\ About(previewPublishedPages[i], fixes[j])

C3_Witness ==
    /\ pc = "exited"
    /\ Len(fixes) = 2
    /\ fixes[1].status = "PENDING" /\ fixes[1].documentPath = "/a"
    /\ Qualifies(fixes[2])
    /\ StatusCallIds = <<2>>
    /\ Len(livePublishedPages) = 1

\* C4: after a failed routing-config step or a failed fix-list fetch the run
\* has exited with code 1, with no status call, no evidence and no result; and
\* after a failed routing-config step the fix list was never asked for.
C4_FatalFetchAborts ==
    /\ (RoutingFailed \/ FixListFailed) =>
          /\ pc = "exited" /\ exitCode = 1
          /\ StatusCalls = <<>>
          /\ livePublishedPages = <<>> /\ previewPublishedPages = <<>>
          /\ results.kind = "pending"
    /\ RoutingFailed => ~FixListCalled

C4_Witness ==
    /\ pc = "exited"
    /\ SiteReturned /\ ~SiteFetchFailed /\ ~rso.present

\* C5: with a credential missing, the process exits with code 1 at start-up and
\* no remote call is ever made.
C5_MissingCredentialExitsFirst ==
    SomeCredentialMissing =>
        /\ trace = <<>>
        /\ pc # "startup" => (pc = "exited" /\ exitCode = 1)

C5_Witness ==
    /\ pc = "exited"
    /\ env.SPACECAT_API_KEY = "key"
    /\ env.HELIX_ADMIN_TOKEN = Undefined

C6_Embedded ==
    LET done == SubSeq(QualifyingFixes, 1, Len(StatusReturns))
    IN Embeds(livePublishedPages, done) /\ Embeds(previewPublishedPages, done)

C6_AppendOnly ==
    /\ IsPrefix(livePublishedPages, livePublishedPages')
    /\ IsPrefix(previewPublishedPages, previewPublishedPages')

\* C6: each evidence list is at all times an order-preserving subsequence of
\* the qualifying records checked so far, one entry per record at most, and a
\* step only ever appends to it.
C6_EvidenceIsOrderedSubsequence == [](C6_Embedded) /\ [][C6_AppendOnly]_vars

C6_Witness ==
    /\ Len(livePublishedPages) = 2
    /\ livePublishedPages[1].documentPath # livePublishedPages[2].documentPath
    /\ Len(previewPublishedPages) = 1

\* C7: between any two consecutive status calls there is a pause.
C7_PauseBetweenStatusCalls ==
    \A i, j \in 1..Len(trace) :
        (i < j /\ IsStatusCall(trace[i]) /\ IsStatusCall(trace[j])) =>
            \E k \in (i + 1)..(j - 1) : trace[k].ev = "pause"

\* C8: the process exits with code 1 iff a credential is missing, the
\* routing-config step failed or the fix-list fetch failed, and with code 0
\* otherwise; a run whose filtered set is empty makes no status call.
C8_ExitCode ==
    pc = "exited" =>
        /\ exitCode \in {0, 1}
        /\ exitCode = 1 <=> (SomeCredentialMissing \/ RoutingFailed \/ FixListFailed)
        /\ (exitCode = 0 /\ QualifyingIds = <<>>) => StatusCalls = <<>>

C8_Witness ==
    /\ pc = "exited" /\ exitCode = 0
    /\ Len(StatusReturns) = 2
    /\ ~StatusReturns[1].ok /\ ~StatusReturns[2].ok

\* C9: isDateAfter is strict on instants: true iff both arguments are valid
\* and the first is chronologically later; never true of (a, a) nor of both
\* (a, b) and (b, a); false when an argument is unparseable.
C9_StrictInstantComparison ==
    cmpOut.called =>
        /\ ~cmpOut.aa
        /\ ~(cmpOut.ab /\ cmpOut.ba)
        /\ cmpOut.ab <=> StrictlyLater(cmpA, cmpB)
        /\ cmpOut.ba <=> StrictlyLater(cmpB, cmpA)
        /\ (~ValidTimestamp(cmpA) \/ ~ValidTimestamp(cmpB)) =>
              (~cmpOut.ab /\ ~cmpOut.ba)

C9_Witness ==
    /\ cmpOut.called
    /\ cmpA = Iso(3, 30, 120) /\ cmpB = Iso(1, 30, 0)
    /\ ~cmpOut.ab /\ ~cmpOut.ba

\* C10: remote calls alternate with their completions (one outstanding at
\* most), the order is site details, fix list, status calls, and the status
\* calls are those of the qualifying records in record order, one each, all of
\* them once the results are returned.
C10_SequentialNoRetry ==
    /\ \A i \in 1..Len(RemoteEvents) :
         IF i % 2 = 1
         THEN RemoteEvents[i].ev = "call"
         ELSE /\ RemoteEvents[i].ev = "return"
              /\ RemoteEvents[i].api = RemoteEvents[i - 1].api
              /\ RemoteEvents[i].id = RemoteEvents[i - 1].id
    /\ \A i \in 1..Len(Calls) :
         Calls[i].api = (IF i = 1 THEN "site" ELSE IF i = 2 THEN "fixes" ELSE "status")
    /\ IsPrefix(StatusCallIds, QualifyingIds)
    /\ results.kind = "object" => StatusCallIds = QualifyingIds

C10_Witness ==
    /\ results.kind = "object"
    /\ Len(StatusCalls) = 2
    /\ ~StatusReturns[1].ok

====
